---------------------------- MODULE Spec2Model ----------------------------
(***************************************************************************)
(* Model of the virtual museum of src/main.js: first-person movement,      *)
(* furniture collision, the zoom-to-artwork focus mode and the bounds      *)
(* watchdog.                                                               *)
(*                                                                         *)
(* Numbers are fixed point.  Lengths are in hundredths of a room unit      *)
(* (2 units = 200), velocities in hundredths of a unit per second, times   *)
(* in tenths of a second, direction components and cosines in thousandths, *)
(* angles in whole degrees.  Every fraction of the source that is a        *)
(* multiple of 0.05 is exact; ROOM_WIDTH/3 and 1/sqrt(2) are rounded to    *)
(* the nearest representable value, as the source's doubles round them.    *)
(***************************************************************************)
EXTENDS Integers, Sequences, FiniteSets, TLC

(***************************************************************************)
(* Program constants                                                       *)
(***************************************************************************)
ROOM_WIDTH == 5000
ROOM_HEIGHT == 600
ROOM_LENGTH == 3000
GRAVITY == -3000
JUMP_FORCE == 1000
MAX_ARTWORK_DIMENSION == 500
\* const speed = 50.0, in hundredths of a unit per second
speed == 5000
\* the 0.3 personal-space margin of checkFurnitureCollision
margin == 30
\* the height a player standing on a bench has (camera.position.y = 3)
benchTopHeight == 300
\* benchTotalHeight + 1.0, the jump-over threshold
benchClearHeight == 200
\* the eye height of the floor (camera.position.y = 2)
floorHeight == 200
\* the watchdog tolerates 5 units beyond the walls
watchdogSlack == 500
\* walls are kept 1 unit away by movement and by resetZoom
wallInset == 100
\* zoomToArtwork keeps the target 1.5 units from the walls
zoomInset == 150
NumImages == 11

(***************************************************************************)
(* Bounds of the model                                                     *)
(***************************************************************************)
\* animation frames taken in one behaviour
MaxTicks == 4

\* JavaScript's null and undefined
NULL == [null |-> TRUE]

Abs(n) == IF n < 0 THEN -n ELSE n
Max(a, b) == IF a >= b THEN a ELSE b
Min(a, b) == IF a <= b THEN a ELSE b

\* a / b rounded to the nearest integer, halves away from zero (b > 0)
RoundDiv(a, b) == IF a >= 0 THEN (2 * a + b) \div (2 * b)
                  ELSE -((2 * (-a) + b) \div (2 * b))

Vec(x, y, z) == [x |-> x, y |-> y, z |-> z]

(***************************************************************************)
(* Furniture registry, in the order scene construction pushes it:          *)
(* setupLighting (planters, benches), then createBalloons, then            *)
(* createGiftBoxes.  dims holds the footprint (dimensions.x, dimensions.z).*)
(***************************************************************************)
Item(t, px, pz, w, d, r) ==
    [type |-> t, position |-> [x |-> px, z |-> pz],
     dimensions |-> [x |-> w, z |-> d], rotation |-> r]

createPlanter(px, pz) == Item("planter", px, pz, 200, 200, NULL)
createBench(px, pz, r) == Item("bench", px, pz, 400, 150, r)
createBalloonGroup(px, pz) == Item("decoration", px, pz, 100, 100, 0)
\* group.rotation.y of a gift box is random; collision never reads it
createGiftBox(px, pz, w, d) == Item("decoration", px, pz, w, d, NULL)

furniture ==
    << createPlanter(-(ROOM_WIDTH \div 2) + 200, -(ROOM_LENGTH \div 2) + 200),
       createPlanter(-(ROOM_WIDTH \div 2) + 200, (ROOM_LENGTH \div 2) - 200),
       createPlanter((ROOM_WIDTH \div 2) - 200, -(ROOM_LENGTH \div 2) + 200),
       createPlanter((ROOM_WIDTH \div 2) - 200, (ROOM_LENGTH \div 2) - 200),
       createBench(0, -(ROOM_LENGTH \div 4), 0),
       createBench(0, ROOM_LENGTH \div 4, 0),
       createBalloonGroup(-(ROOM_WIDTH \div 4), -(ROOM_LENGTH \div 4)),
       createBalloonGroup(ROOM_WIDTH \div 4, -(ROOM_LENGTH \div 4)),
       createBalloonGroup(0, ROOM_LENGTH \div 4),
       createBalloonGroup(-RoundDiv(ROOM_WIDTH, 3), RoundDiv(ROOM_LENGTH, 3)),
       createBalloonGroup(RoundDiv(ROOM_WIDTH, 3), RoundDiv(ROOM_LENGTH, 3)),
       createGiftBox(-RoundDiv(ROOM_WIDTH, 3), -RoundDiv(ROOM_LENGTH, 3), 80, 80),
       createGiftBox(RoundDiv(ROOM_WIDTH, 3), -RoundDiv(ROOM_LENGTH, 3), 70, 70),
       createGiftBox(0, RoundDiv(ROOM_LENGTH, 3), 90, 60),
       createGiftBox(-(ROOM_WIDTH \div 2) + 200, -(ROOM_LENGTH \div 2) + 200, 100, 80),
       createGiftBox(-(ROOM_WIDTH \div 2) + 200, -(ROOM_LENGTH \div 2) + 200, 70, 60),
       createGiftBox(-(ROOM_WIDTH \div 2) + 200, -(ROOM_LENGTH \div 2) + 200, 50, 50) >>

(***************************************************************************)
(* Collision engine                                                        *)
(***************************************************************************)
\* half extents of an item, swapped for a rotated bench
xBoundOf(item) ==
    IF item.type = "bench" /\ item.rotation # 0
    THEN item.dimensions.z \div 2 ELSE item.dimensions.x \div 2

zBoundOf(item) ==
    IF item.type = "bench" /\ item.rotation # 0
    THEN item.dimensions.x \div 2 ELSE item.dimensions.z \div 2

\* the horizontal test of checkFurnitureCollision for one item
overlapsItem(p, item) ==
    /\ Abs(p.x - item.position.x) < xBoundOf(item) + margin
    /\ Abs(p.z - item.position.z) < zBoundOf(item) + margin

\* the bench cases with the standing-on-the-bench test made before the
\* jumping-over test
benchVerdictTopFirst(p, item) ==
    IF Abs(p.y - benchTopHeight) < 10
    THEN IF /\ Abs(p.x - item.position.x) < xBoundOf(item) - 10
            /\ Abs(p.z - item.position.z) < zBoundOf(item) - 10
         THEN "false" ELSE "true"
    ELSE IF p.y > benchClearHeight THEN "false"
    ELSE "true"

\* what the loop body decides for an item the position overlaps:
\* "true" / "false" are the returns, "next" falls through to the next item
benchVerdict(p, item) ==
    IF p.y > benchClearHeight THEN "false"
    ELSE IF Abs(p.y - benchTopHeight) < 10
         THEN IF /\ Abs(p.x - item.position.x) < xBoundOf(item) - 10
                 /\ Abs(p.z - item.position.z) < zBoundOf(item) - 10
              THEN "false" ELSE "true"
    ELSE IF p.y <= benchClearHeight THEN "true"
    ELSE "next"

itemVerdict(p, item) ==
    IF ~overlapsItem(p, item) THEN "next"
    ELSE IF item.type = "bench" THEN benchVerdict(p, item)
    ELSE "true"

RECURSIVE scanFurniture(_, _, _)
scanFurniture(list, p, i) ==
    IF i > Len(list) THEN FALSE
    ELSE LET v == itemVerdict(p, list[i])
         IN IF v = "true" THEN TRUE
            ELSE IF v = "false" THEN FALSE
            ELSE scanFurniture(list, p, i + 1)

checkFurnitureCollision(newPosition) == scanFurniture(furniture, newPosition, 1)


(***************************************************************************)
(* Vector helpers (THREE.Vector3, PointerLockControls)                     *)
(***************************************************************************)
\* floor of the square root, by bisection
RECURSIVE sqrtBetween(_, _, _)
sqrtBetween(n, lo, hi) ==
    IF hi - lo <= 1 THEN lo
    ELSE LET mid == (lo + hi) \div 2
         IN IF mid * mid <= n THEN sqrtBetween(n, mid, hi)
            ELSE sqrtBetween(n, lo, mid)

ISqrt(n) == sqrtBetween(n, 0, 46340)

distanceSq(a, b) ==
    (a.x - b.x) * (a.x - b.x) + (a.y - b.y) * (a.y - b.y) + (a.z - b.z) * (a.z - b.z)

\* Vector3.distanceTo
distanceTo(a, b) == ISqrt(distanceSq(a, b))

\* cosine of a whole number of degrees, in thousandths
cosTable ==
    <<
       1000, 1000, 999, 999, 998, 996, 995, 993, 990, 988, 985, 982,
       978, 974, 970, 966, 961, 956, 951, 946, 940, 934, 927, 921,
       914, 906, 899, 891, 883, 875, 866, 857, 848, 839, 829, 819,
       809, 799, 788, 777, 766, 755, 743, 731, 719, 707, 695, 682,
       669, 656, 643, 629, 616, 602, 588, 574, 559, 545, 530, 515,
       500, 485, 469, 454, 438, 423, 407, 391, 375, 358, 342, 326,
       309, 292, 276, 259, 242, 225, 208, 191, 174, 156, 139, 122,
       105, 87, 70, 52, 35, 17, 0, -17, -35, -52, -70, -87,
       -105, -122, -139, -156, -174, -191, -208, -225, -242, -259, -276, -292,
       -309, -326, -342, -358, -375, -391, -407, -423, -438, -454, -469, -485,
       -500, -515, -530, -545, -559, -574, -588, -602, -616, -629, -643, -656,
       -669, -682, -695, -707, -719, -731, -743, -755, -766, -777, -788, -799,
       -809, -819, -829, -839, -848, -857, -866, -875, -883, -891, -899, -906,
       -914, -921, -927, -934, -940, -946, -951, -956, -961, -966, -970, -974,
       -978, -982, -985, -988, -990, -993, -995, -996, -998, -999, -999, -1000,
       -1000
    >>

cosDeg(k) == cosTable[k + 1]

\* Math.acos in whole degrees: the smallest k in 0..180 with cos k <= c
\* thousandths (the table never increases, so k counts the entries above c)
acosDeg(c) == Cardinality({k \in 0..179 : cosDeg(k) > c})

\* sine and cosine of a camera yaw; yaws are multiples of 90 degrees
sinYaw(yaw) == CASE yaw = 0 -> 0 [] yaw = 90 -> 1 [] yaw = 180 -> 0 [] yaw = 270 -> -1

cosYaw(yaw) == CASE yaw = 0 -> 1 [] yaw = 90 -> 0 [] yaw = 180 -> -1 [] yaw = 270 -> 0

(***************************************************************************)
(* Artworks: createArtworks places image i at artworkPositions[i] with the *)
(* text artworkInfo[i] once its texture has loaded.                        *)
(***************************************************************************)
Wall(px, pz, r) == [position |-> Vec(px, ROOM_HEIGHT \div 2, pz), rotation |-> r]

artworkPositions ==
    << Wall(-(ROOM_WIDTH \div 2) + 20, -1000, 90),
       Wall(-(ROOM_WIDTH \div 2) + 20, 0, 90),
       Wall(-(ROOM_WIDTH \div 2) + 20, 1000, 90),
       Wall((ROOM_WIDTH \div 2) - 20, -1000, 270),
       Wall((ROOM_WIDTH \div 2) - 20, 0, 270),
       Wall((ROOM_WIDTH \div 2) - 20, 1000, 270),
       Wall(-1500, -(ROOM_LENGTH \div 2) + 20, 0),
       Wall(-500, -(ROOM_LENGTH \div 2) + 20, 0),
       Wall(500, -(ROOM_LENGTH \div 2) + 20, 0),
       Wall(1500, -(ROOM_LENGTH \div 2) + 20, 0),
       Wall(0, (ROOM_LENGTH \div 2) - 20, 180) >>

\* titles as in the source; a description is named by the entry it belongs to
artworkInfo ==
    << [title |-> "3-1-25", description |-> "description 1"],
       [title |-> "10-19-24", description |-> "description 2"],
       [title |-> "10-12-24", description |-> "description 3"],
       [title |-> "9-23-24", description |-> "description 4"],
       [title |-> "10-26-24", description |-> "description 5"],
       [title |-> "12-31-24", description |-> "description 6"],
       [title |-> "2-14-25", description |-> "description 7"],
       [title |-> "8-11-24", description |-> "description 8"],
       [title |-> "idk the date", description |-> "description 9"],
       [title |-> "10-13-24", description |-> "description 10"],
       [title |-> "2-14-25", description |-> "description 11"] >>

\* pixel sizes an image file may have: <<width, height>>
ImageSizes == { <<4, 3>>, <<3, 4>> }

\* images whose load completes in a behaviour of the model
LoadedImages == {11}

\* the entry of a load callback that takes the title of the first image
\* whatever its own index
loadedArtworkFirstTitle(index, size) ==
    LET landscape == size[1] >= size[2]
        side == Min(MAX_ARTWORK_DIMENSION, 400)
        artworkWidth == IF landscape THEN side ELSE (side * size[1]) \div size[2]
        artworkHeight == IF landscape THEN (side * size[2]) \div size[1] ELSE side
    IN [index |-> index,
        position |-> artworkPositions[index].position,
        rotation |-> artworkPositions[index].rotation,
        title |-> artworkInfo[1].title,
        description |-> artworkInfo[index].description,
        width |-> artworkWidth,
        height |-> artworkHeight]

\* the entry the load callback of image index pushes, for a texture of that size
loadedArtwork(index, size) ==
    LET landscape == size[1] >= size[2]
        side == Min(MAX_ARTWORK_DIMENSION, 400)
        artworkWidth == IF landscape THEN side ELSE (side * size[1]) \div size[2]
        artworkHeight == IF landscape THEN (side * size[2]) \div size[1] ELSE side
    IN [index |-> index,
        position |-> artworkPositions[index].position,
        rotation |-> artworkPositions[index].rotation,
        title |-> artworkInfo[index].title,
        description |-> artworkInfo[index].description,
        width |-> artworkWidth,
        height |-> artworkHeight]

(***************************************************************************)
(* Artwork selection                                                       *)
(***************************************************************************)
\* camera.getWorldDirection, not normalised: pitch is the tangent of the
\* elevation in thousandths
worldDirection(rotation) ==
    Vec(-1000 * sinYaw(rotation.yaw), rotation.pitch, -1000 * cosYaw(rotation.yaw))

\* Vector3.angleTo in whole degrees, for an offset shorter than 20 units
angleTo(d, a) ==
    LET ld == ISqrt(d.x * d.x + d.y * d.y + d.z * d.z)
        la == ISqrt(a.x * a.x + a.y * a.y + a.z * a.z)
        dot == d.x * a.x + d.y * a.y + d.z * a.z
    IN IF ld * la = 0 THEN 90
       ELSE acosDeg(Max(-1000, Min(1000, (dot * 1000) \div (ld * la))))

maxDistanceOf(artwork) == Max(1000, Max(artwork.width, artwork.height) * 3)

\* distance < maxDistance; an offset of maxDistance or more on one axis
\* already decides it
withinDistance(p, artwork) ==
    /\ Abs(p.x - artwork.position.x) < maxDistanceOf(artwork)
    /\ Abs(p.y - artwork.position.y) < maxDistanceOf(artwork)
    /\ Abs(p.z - artwork.position.z) < maxDistanceOf(artwork)
    /\ distanceTo(p, artwork.position) < maxDistanceOf(artwork)

offsetTo(p, artwork) ==
    Vec(artwork.position.x - p.x, artwork.position.y - p.y, artwork.position.z - p.z)

\* Math.PI / 4 * (1 + min(width, height) / 5), in degrees
angleThreshold(artwork) == 45 + (9 * Min(artwork.width, artwork.height)) \div 100

qualifies(p, rotation, artwork) ==
    /\ withinDistance(p, artwork)
    /\ angleTo(worldDirection(rotation), offsetTo(p, artwork)) < angleThreshold(artwork)

\* (1 - angle / PI) * 10 + (maxDistance - distance) + size, in hundredths
scoreOf(p, rotation, artwork) ==
    LET angle == angleTo(worldDirection(rotation), offsetTo(p, artwork))
    IN (1000 - (angle * 1000) \div 180)
       + (maxDistanceOf(artwork) - distanceTo(p, artwork.position))
       + Max(artwork.width, artwork.height)

\* the forEach keeping the first qualifying artwork, whatever its score
RECURSIVE scanArtworksKeepsFirst(_, _, _, _, _)
scanArtworksKeepsFirst(list, p, rotation, i, nearest) ==
    IF i > Len(list) THEN nearest
    ELSE LET artwork == list[i]
             better == qualifies(p, rotation, artwork) /\ nearest = NULL
         IN scanArtworksKeepsFirst(list, p, rotation, i + 1,
                                   IF better THEN artwork ELSE nearest)

\* the forEach of findNearestArtwork from entry i on, best so far in nearest
RECURSIVE scanArtworks(_, _, _, _, _)
scanArtworks(list, p, rotation, i, nearest) ==
    IF i > Len(list) THEN nearest
    ELSE LET artwork == list[i]
             better == /\ qualifies(p, rotation, artwork)
                       /\ \/ nearest = NULL
                          \/ scoreOf(p, rotation, artwork) > scoreOf(p, rotation, nearest)
         IN scanArtworks(list, p, rotation, i + 1, IF better THEN artwork ELSE nearest)

findNearestArtwork(s) == scanArtworks(s.artworks, s.position, s.rotation, 1, NULL)

(***************************************************************************)
(* Program state.  A handler is an operator from the state before it to    *)
(* the state after it; s is a record of the module's globals:              *)
(*   position, rotation      camera.position, camera.rotation              *)
(*   velocity                velocity.x, velocity.z                        *)
(*   jumpVelocity, isJumping, canJump                                      *)
(*   moveForward, moveBackward, moveLeft, moveRight                        *)
(*   isZooming, originalCameraPosition, originalCameraRotation             *)
(*   isLocked                controls.isLocked                             *)
(*   lockRequest             the pointer-lock request the browser has not  *)
(*                           answered yet: "none", "lock" or "unlock"      *)
(*   artworks                the artwork registry                          *)
(*   sincePrevTime           time from prevTime to the latest frame        *)
(*   infoPanel               the artwork shown in #artwork-info, or NULL   *)
(***************************************************************************)
InitialState ==
    [position |-> Vec(0, floorHeight, 0),
     rotation |-> [yaw |-> 0, pitch |-> 0],
     velocity |-> [x |-> 0, z |-> 0],
     jumpVelocity |-> 0,
     isJumping |-> FALSE,
     canJump |-> TRUE,
     moveForward |-> FALSE,
     moveBackward |-> FALSE,
     moveLeft |-> FALSE,
     moveRight |-> FALSE,
     isZooming |-> FALSE,
     originalCameraPosition |-> NULL,
     originalCameraRotation |-> NULL,
     isLocked |-> FALSE,
     lockRequest |-> "none",
     artworks |-> << >>,
     sincePrevTime |-> 0,
     infoPanel |-> NULL]

\* controls.lock() and controls.unlock() ask the browser; isLocked follows
\* when the pointerlockchange event arrives
controlsLock(s) == [s EXCEPT !.lockRequest = "lock"]

controlsUnlock(s) == [s EXCEPT !.lockRequest = "unlock"]

clamp(lo, hi, v) == Max(lo, Min(hi, v))

(***************************************************************************)
(* Focus controller                                                        *)
(***************************************************************************)
viewingDistance(artwork) == Max(150, (Max(artwork.width, artwork.height) * 8) \div 10)

\* artwork.group.position minus (0, 0, viewingDistance) turned by the group's
\* yaw, clamped into the room, at eye level
zoomTarget(artwork) ==
    LET d == viewingDistance(artwork)
        tx == artwork.position.x - d * sinYaw(artwork.rotation)
        tz == artwork.position.z - d * cosYaw(artwork.rotation)
    IN Vec(clamp(-(ROOM_WIDTH \div 2) + zoomInset, (ROOM_WIDTH \div 2) - zoomInset, tx),
           (ROOM_HEIGHT \div 2) - 100,
           clamp(-(ROOM_LENGTH \div 2) + zoomInset, (ROOM_LENGTH \div 2) - zoomInset, tz))

\* camera.lookAt from a point whose offset to the target lies along one
\* horizontal axis, as every zoom target's does
lookAt(from, target) ==
    LET dx == target.x - from.x
        dy == target.y - from.y
        dz == target.z - from.z
        horizontal == ISqrt(dx * dx + dz * dz)
    IN [yaw |-> IF Abs(dx) > Abs(dz) THEN (IF dx < 0 THEN 90 ELSE 270)
                ELSE (IF dz > 0 THEN 180 ELSE 0),
        pitch |-> IF horizontal = 0 THEN 0 ELSE (dy * 1000) \div horizontal]

\* zoomToArtwork without its "already zooming" early return
zoomToArtworkUnguarded(s, artwork) ==
    LET target == zoomTarget(artwork)
    IN [controlsUnlock(s) EXCEPT
           !.originalCameraPosition = s.position,
           !.originalCameraRotation = s.rotation,
           !.isZooming = TRUE,
           !.position = target,
           !.rotation = lookAt(target, artwork.position),
           !.infoPanel = [title |-> artwork.title,
                          description |-> artwork.description]]

zoomToArtwork(s, artwork) ==
    IF s.isZooming THEN s
    ELSE LET target == zoomTarget(artwork)
         IN [controlsUnlock(s) EXCEPT
                !.originalCameraPosition = s.position,
                !.originalCameraRotation = s.rotation,
                !.isZooming = TRUE,
                !.position = target,
                !.rotation = lookAt(target, artwork.position),
                !.infoPanel = [title |-> artwork.title,
                               description |-> artwork.description]]

safePositions ==
    << Vec(0, floorHeight, 0),
       Vec(-(ROOM_WIDTH \div 4), floorHeight, 0),
       Vec(ROOM_WIDTH \div 4, floorHeight, 0),
       Vec(0, floorHeight, -(ROOM_LENGTH \div 4)),
       Vec(0, floorHeight, ROOM_LENGTH \div 4) >>

\* the scan without the collision test on the candidate
RECURSIVE scanSafePositionsUnchecked(_, _, _)
scanSafePositionsUnchecked(validPosition, i, closest) ==
    IF i > Len(safePositions) THEN closest
    ELSE LET candidate == safePositions[i]
             nearer == distanceSq(validPosition, candidate)
                           < distanceSq(validPosition, closest)
         IN scanSafePositionsUnchecked(validPosition, i + 1,
                                       IF nearer THEN candidate ELSE closest)

\* the scan for the closest safe position from entry i on
RECURSIVE scanSafePositions(_, _, _)
scanSafePositions(validPosition, i, closest) ==
    IF i > Len(safePositions) THEN closest
    ELSE LET candidate == safePositions[i]
             nearer == /\ distanceSq(validPosition, candidate)
                            < distanceSq(validPosition, closest)
                       /\ ~checkFurnitureCollision(candidate)
         IN scanSafePositions(validPosition, i + 1,
                              IF nearer THEN candidate ELSE closest)

\* the restored position with the room centre as the only fallback
restoredPositionToCentre(saved) ==
    IF saved = NULL THEN Vec(0, floorHeight, 0)
    ELSE LET validPosition ==
                 Vec(clamp(-(ROOM_WIDTH \div 2) + wallInset,
                           (ROOM_WIDTH \div 2) - wallInset, saved.x),
                     Max(floorHeight, saved.y),
                     clamp(-(ROOM_LENGTH \div 2) + wallInset,
                           (ROOM_LENGTH \div 2) - wallInset, saved.z))
         IN IF checkFurnitureCollision(validPosition)
            THEN safePositions[1]
            ELSE validPosition

\* the restored position without the clamp into the room
restoredPositionUnclamped(saved) ==
    IF saved = NULL THEN Vec(0, floorHeight, 0)
    ELSE LET validPosition == Vec(saved.x, Max(floorHeight, saved.y), saved.z)
         IN IF checkFurnitureCollision(validPosition)
            THEN scanSafePositions(validPosition, 2, safePositions[1])
            ELSE validPosition

\* the position resetZoom restores for a saved position
restoredPosition(saved) ==
    IF saved = NULL THEN Vec(0, floorHeight, 0)
    ELSE LET validPosition ==
                 Vec(clamp(-(ROOM_WIDTH \div 2) + wallInset,
                           (ROOM_WIDTH \div 2) - wallInset, saved.x),
                     Max(floorHeight, saved.y),
                     clamp(-(ROOM_LENGTH \div 2) + wallInset,
                           (ROOM_LENGTH \div 2) - wallInset, saved.z))
         IN IF checkFurnitureCollision(validPosition)
            THEN scanSafePositions(validPosition, 2, safePositions[1])
            ELSE validPosition

\* resetZoom without the camera.rotation.copy(originalCameraRotation)
resetZoomKeepsRotation(s) ==
    LET saved == IF s.originalCameraPosition = NULL \/ s.originalCameraRotation = NULL
                 THEN NULL ELSE s.originalCameraPosition
    IN [controlsLock(s) EXCEPT
           !.position = restoredPosition(saved),
           !.isZooming = FALSE,
           !.infoPanel = NULL,
           !.originalCameraPosition = NULL,
           !.originalCameraRotation = NULL]

\* resetZoom without clearing the saved pose
resetZoomKeepsSavedPose(s) ==
    LET saved == IF s.originalCameraPosition = NULL \/ s.originalCameraRotation = NULL
                 THEN NULL ELSE s.originalCameraPosition
    IN [controlsLock(s) EXCEPT
           !.position = restoredPosition(saved),
           !.rotation = IF s.originalCameraRotation # NULL
                        THEN s.originalCameraRotation ELSE s.rotation,
           !.isZooming = FALSE,
           !.infoPanel = NULL]

resetZoom(s) ==
    LET saved == IF s.originalCameraPosition = NULL \/ s.originalCameraRotation = NULL
                 THEN NULL ELSE s.originalCameraPosition
    IN [controlsLock(s) EXCEPT
           !.position = restoredPosition(saved),
           !.rotation = IF s.originalCameraRotation # NULL
                        THEN s.originalCameraRotation ELSE s.rotation,
           !.isZooming = FALSE,
           !.infoPanel = NULL,
           !.originalCameraPosition = NULL,
           !.originalCameraRotation = NULL]

(***************************************************************************)
(* Emergency recovery                                                      *)
(***************************************************************************)
\* emergencyReset without the resetZoom() of a zooming camera
emergencyResetKeepsFocus(s) ==
    LET s2 == [s EXCEPT
                  !.position = Vec(0, floorHeight, 0),
                  !.velocity = [x |-> 0, z |-> 0],
                  !.moveForward = FALSE,
                  !.moveBackward = FALSE,
                  !.moveLeft = FALSE,
                  !.moveRight = FALSE]
    IN IF ~s2.isLocked THEN controlsLock(s2) ELSE s2

\* emergencyReset without the camera.position.set(0, 2, 0)
emergencyResetKeepsPosition(s) ==
    LET s1 == IF s.isZooming THEN resetZoom(s) ELSE s
        s2 == [s1 EXCEPT
                  !.velocity = [x |-> 0, z |-> 0],
                  !.moveForward = FALSE,
                  !.moveBackward = FALSE,
                  !.moveLeft = FALSE,
                  !.moveRight = FALSE]
    IN IF ~s2.isLocked THEN controlsLock(s2) ELSE s2

emergencyReset(s) ==
    LET s1 == IF s.isZooming THEN resetZoom(s) ELSE s
        s2 == [s1 EXCEPT
                  !.position = Vec(0, floorHeight, 0),
                  !.velocity = [x |-> 0, z |-> 0],
                  !.moveForward = FALSE,
                  !.moveBackward = FALSE,
                  !.moveLeft = FALSE,
                  !.moveRight = FALSE]
    IN IF ~s2.isLocked THEN controlsLock(s2) ELSE s2

(***************************************************************************)
(* Keyboard                                                                *)
(***************************************************************************)
KeyCodes == {"KeyW", "KeyA", "KeyS", "KeyD", "Space", "KeyV", "Escape", "KeyR"}

\* the keydown listener with a V that focuses the first loaded artwork when
\* none qualifies
onKeyDownFocusesAnyway(s, code) ==
    IF s.isZooming
    THEN IF code \in {"KeyV", "Escape"} THEN resetZoom(s) ELSE s
    ELSE IF code = "KeyV"
         THEN (IF Len(s.artworks) > 0
               THEN zoomToArtwork(s, IF findNearestArtwork(s) # NULL
                                     THEN findNearestArtwork(s) ELSE s.artworks[1])
               ELSE s)
    ELSE IF code = "Space"
         THEN (IF s.canJump
               THEN [s EXCEPT !.isJumping = TRUE, !.canJump = FALSE,
                              !.jumpVelocity = JUMP_FORCE]
               ELSE s)
    ELSE IF code = "KeyW" THEN [s EXCEPT !.moveForward = TRUE]
    ELSE IF code = "KeyA" THEN [s EXCEPT !.moveLeft = TRUE]
    ELSE IF code = "KeyS" THEN [s EXCEPT !.moveBackward = TRUE]
    ELSE IF code = "KeyD" THEN [s EXCEPT !.moveRight = TRUE]
    ELSE s

onKeyDown(s, code) ==
    IF s.isZooming
    THEN IF code \in {"KeyV", "Escape"} THEN resetZoom(s) ELSE s
    ELSE CASE code = "KeyW" -> [s EXCEPT !.moveForward = TRUE]
           [] code = "KeyA" -> [s EXCEPT !.moveLeft = TRUE]
           [] code = "KeyS" -> [s EXCEPT !.moveBackward = TRUE]
           [] code = "KeyD" -> [s EXCEPT !.moveRight = TRUE]
           [] code = "Space" ->
                IF s.canJump
                THEN [s EXCEPT !.isJumping = TRUE, !.canJump = FALSE,
                               !.jumpVelocity = JUMP_FORCE]
                ELSE s
           [] code = "KeyV" ->
                LET nearestArtwork == findNearestArtwork(s)
                IN IF nearestArtwork # NULL THEN zoomToArtwork(s, nearestArtwork)
                   ELSE s
           [] OTHER -> s

\* the second keydown listener of init
onKeyDownReset(s, code) == IF code = "KeyR" THEN emergencyReset(s) ELSE s

\* a keydown event runs both listeners, in the order init registers them
keyDown(s, code) == onKeyDownReset(onKeyDown(s, code), code)

onKeyUp(s, code) ==
    CASE code = "KeyW" -> [s EXCEPT !.moveForward = FALSE]
      [] code = "KeyA" -> [s EXCEPT !.moveLeft = FALSE]
      [] code = "KeyS" -> [s EXCEPT !.moveBackward = FALSE]
      [] code = "KeyD" -> [s EXCEPT !.moveRight = FALSE]
      [] OTHER -> s

(***************************************************************************)
(* Animation frame: bounds watchdog, then the movement controller          *)
(***************************************************************************)
\* the watchdog's condition with the 5-unit slack taken off the walls
\* instead of added to them
outOfBoundsInsideWalls(s) ==
    \/ (~s.isZooming /\ s.position.y < 0)
    \/ s.position.x < -(ROOM_WIDTH \div 2) + watchdogSlack
    \/ s.position.x > (ROOM_WIDTH \div 2) - watchdogSlack
    \/ s.position.z < -(ROOM_LENGTH \div 2) + watchdogSlack
    \/ s.position.z > (ROOM_LENGTH \div 2) - watchdogSlack

\* the condition of the watchdog's if, with the precedence JavaScript gives it
outOfBounds(s) ==
    \/ (~s.isZooming /\ s.position.y < 0)
    \/ s.position.x < -(ROOM_WIDTH \div 2) - watchdogSlack
    \/ s.position.x > (ROOM_WIDTH \div 2) + watchdogSlack
    \/ s.position.z < -(ROOM_LENGTH \div 2) - watchdogSlack
    \/ s.position.z > (ROOM_LENGTH \div 2) + watchdogSlack

\* the position is over a bench, inside its footprint shrunk by 0.2
overBench(p) ==
    \E i \in 1..Len(furniture) :
        /\ furniture[i].type = "bench"
        /\ Abs(p.x - furniture[i].position.x) < xBoundOf(furniture[i]) - 20
        /\ Abs(p.z - furniture[i].position.z) < zBoundOf(furniture[i]) - 20

\* a landing that does not snap the height to the surface landed on
landedKeepsHeight(s, height) ==
    [s EXCEPT !.isJumping = FALSE, !.canJump = TRUE, !.jumpVelocity = 0]

\* a landing that leaves the player in the jumping state
landedStillJumping(s, height) ==
    [s EXCEPT !.position.y = height, !.jumpVelocity = 0]

landed(s, height) ==
    [s EXCEPT !.position.y = height, !.isJumping = FALSE,
              !.canJump = TRUE, !.jumpVelocity = 0]

\* jumping and gravity without the fall from a bench the player walked off
jumpPhaseStaysUp(s, delta) ==
    IF s.isJumping
    THEN LET jv == s.jumpVelocity + (GRAVITY * delta) \div 10
             y == s.position.y + RoundDiv(jv * delta, 10)
             moved == [s EXCEPT !.jumpVelocity = jv, !.position.y = y]
         IN IF jv < 0 /\ overBench(moved.position) /\ y <= benchTopHeight /\ y > floorHeight
            THEN landed(moved, benchTopHeight)
            ELSE IF y <= floorHeight THEN landed(moved, floorHeight)
            ELSE moved
    ELSE s

\* jumping and gravity, and falling off a bench, for delta tenths of a second
jumpPhase(s, delta) ==
    IF s.isJumping
    THEN LET jv == s.jumpVelocity + (GRAVITY * delta) \div 10
             y == s.position.y + RoundDiv(jv * delta, 10)
             moved == [s EXCEPT !.jumpVelocity = jv, !.position.y = y]
         IN IF jv < 0 /\ overBench(moved.position) /\ y <= benchTopHeight /\ y > floorHeight
            THEN landed(moved, benchTopHeight)
            ELSE IF y <= floorHeight THEN landed(moved, floorHeight)
            ELSE moved
    ELSE IF s.position.y > floorHeight /\ ~overBench(s.position)
         THEN [s EXCEPT !.isJumping = TRUE, !.jumpVelocity = 0]
    ELSE s

\* a component of direction after direction.normalize(), in thousandths
normalized(a, b) == IF a = 0 THEN 0 ELSE IF b = 0 THEN 1000 * a ELSE 707 * a

Number(b) == IF b THEN 1 ELSE 0

directionZ(s) ==
    normalized(Number(s.moveForward) - Number(s.moveBackward),
               Number(s.moveRight) - Number(s.moveLeft))

directionX(s) ==
    normalized(Number(s.moveRight) - Number(s.moveLeft),
               Number(s.moveForward) - Number(s.moveBackward))

\* direction component * speed * delta
stepOf(component, delta) == RoundDiv(component * speed * delta, 10000)

\* the candidate position the collision tests look at
newPosition(s, delta) ==
    Vec(IF s.moveLeft \/ s.moveRight
        THEN s.position.x - stepOf(directionX(s), delta) ELSE s.position.x,
        s.position.y,
        IF s.moveForward \/ s.moveBackward
        THEN s.position.z - stepOf(directionZ(s), delta) ELSE s.position.z)

insideWallsX(x) ==
    x >= -(ROOM_WIDTH \div 2) + wallInset /\ x <= (ROOM_WIDTH \div 2) - wallInset

insideWallsZ(z) ==
    z >= -(ROOM_LENGTH \div 2) + wallInset /\ z <= (ROOM_LENGTH \div 2) - wallInset

hasWallCollision(p) == ~(insideWallsX(p.x) /\ insideWallsZ(p.z))

\* controls.moveRight(distance): along the camera's right vector
controlsMoveRight(s, distance) ==
    [s EXCEPT !.position.x = @ + distance * cosYaw(s.rotation.yaw),
              !.position.z = @ - distance * sinYaw(s.rotation.yaw)]

\* controls.moveForward(distance): along the camera's horizontal forward vector
controlsMoveForward(s, distance) ==
    [s EXCEPT !.position.x = @ - distance * sinYaw(s.rotation.yaw),
              !.position.z = @ - distance * cosYaw(s.rotation.yaw)]

\* -velocity component * delta
travel(v, delta) == RoundDiv(-v * delta, 10)

\* no collision: the input accelerates and the camera moves
commitMove(s, delta) ==
    LET vx == IF s.moveLeft \/ s.moveRight
              THEN s.velocity.x - stepOf(directionX(s), delta) ELSE s.velocity.x
        vz == IF s.moveForward \/ s.moveBackward
              THEN s.velocity.z - stepOf(directionZ(s), delta) ELSE s.velocity.z
        s1 == [s EXCEPT !.velocity = [x |-> vx, z |-> vz]]
    IN controlsMoveForward(controlsMoveRight(s1, travel(vx, delta)), travel(vz, delta))

\* the slide attempts of a collision that also stop the player
slideMoveStops(s, delta) ==
    LET candidate == newPosition(s, delta)
        slidePositionX == Vec(candidate.x, s.position.y, s.position.z)
        slidePositionZ == Vec(s.position.x, s.position.y, candidate.z)
        slideX == /\ (s.moveForward \/ s.moveBackward)
                  /\ ~checkFurnitureCollision(slidePositionX)
                  /\ insideWallsX(slidePositionX.x)
        slideZ == /\ (s.moveLeft \/ s.moveRight)
                  /\ ~checkFurnitureCollision(slidePositionZ)
                  /\ insideWallsZ(slidePositionZ.z)
        s1 == IF slideX THEN controlsMoveRight(s, travel(s.velocity.x, delta)) ELSE s
        s2 == IF slideZ THEN controlsMoveForward(s1, travel(s.velocity.z, delta)) ELSE s1
    IN [s2 EXCEPT !.velocity = [x |-> 0, z |-> 0]]

\* a collision: the two slide attempts
slideMove(s, delta) ==
    LET candidate == newPosition(s, delta)
        slidePositionX == Vec(candidate.x, s.position.y, s.position.z)
        slidePositionZ == Vec(s.position.x, s.position.y, candidate.z)
        slideX == /\ (s.moveForward \/ s.moveBackward)
                  /\ ~checkFurnitureCollision(slidePositionX)
                  /\ insideWallsX(slidePositionX.x)
        slideZ == /\ (s.moveLeft \/ s.moveRight)
                  /\ ~checkFurnitureCollision(slidePositionZ)
                  /\ insideWallsZ(slidePositionZ.z)
        s1 == IF slideX THEN controlsMoveRight(s, travel(s.velocity.x, delta)) ELSE s
    IN IF slideZ THEN controlsMoveForward(s1, travel(s.velocity.z, delta)) ELSE s1

\* the candidate of this frame is free of walls and furniture
candidateFree(s, delta) ==
    /\ ~hasWallCollision(newPosition(s, delta))
    /\ ~checkFurnitureCollision(newPosition(s, delta))

movePhase(s, delta) ==
    IF candidateFree(s, delta) THEN commitMove(s, delta) ELSE slideMove(s, delta)

damped(s, delta) ==
    [s EXCEPT !.velocity = [x |-> s.velocity.x - s.velocity.x * delta,
                            z |-> s.velocity.z - s.velocity.z * delta]]

\* the state the movement controller starts from: after the watchdog
watched(s) == IF outOfBounds(s) THEN emergencyReset(s) ELSE s

\* the movement gate without its !isZooming conjunct
movementRunsWhileZooming(s) == s.isLocked

\* the movement gate without its controls.isLocked conjunct
movementRunsUnlocked(s) == ~s.isZooming

\* the movement gate of animate
movementRuns(s) == s.isLocked /\ ~s.isZooming

\* one frame, frame tenths of a second after the previous one
animate(s, frame) ==
    LET s1 == watched(s)
        delta == s1.sincePrevTime + frame
    IN IF movementRuns(s1)
       THEN [movePhase(jumpPhase(damped(s1, delta), delta), delta)
                EXCEPT !.sincePrevTime = 0]
       ELSE IF ~s1.isLocked THEN [s1 EXCEPT !.sincePrevTime = 0]
       ELSE [s1 EXCEPT !.sincePrevTime = @ + frame]

(***************************************************************************)
(* The state machine                                                       *)
(***************************************************************************)
VARIABLES
    position, rotation, velocity, jumpVelocity, isJumping, canJump,
    moveForward, moveBackward, moveLeft, moveRight,
    isZooming, originalCameraPosition, originalCameraRotation,
    isLocked, lockRequest, artworks, sincePrevTime, infoPanel,
    \* number of animation frames taken
    ticks,
    \* history: what the latest handler did
    lastOp,
    \* history: the camera pose the open focus session was entered from; kept
    \* through the handler that closes the session, NULL otherwise
    focusEntry,
    \* a call of checkFurnitureCollision from outside the handlers: its
    \* argument, whether it has returned and what it returned; NULL while
    \* the program runs
    probe

programVars ==
    << position, rotation, velocity, jumpVelocity, isJumping, canJump,
       moveForward, moveBackward, moveLeft, moveRight,
       isZooming, originalCameraPosition, originalCameraRotation,
       isLocked, lockRequest, artworks, sincePrevTime, infoPanel >>

vars == << programVars, ticks, lastOp, focusEntry, probe >>

\* the program state as the record the handlers work on
Cur ==
    [position |-> position, rotation |-> rotation, velocity |-> velocity,
     jumpVelocity |-> jumpVelocity, isJumping |-> isJumping, canJump |-> canJump,
     moveForward |-> moveForward, moveBackward |-> moveBackward,
     moveLeft |-> moveLeft, moveRight |-> moveRight,
     isZooming |-> isZooming,
     originalCameraPosition |-> originalCameraPosition,
     originalCameraRotation |-> originalCameraRotation,
     isLocked |-> isLocked, lockRequest |-> lockRequest, artworks |-> artworks,
     sincePrevTime |-> sincePrevTime, infoPanel |-> infoPanel]

\* the handler that ran leaves the program in state s
Becomes(s) ==
    /\ position' = s.position
    /\ rotation' = s.rotation
    /\ velocity' = s.velocity
    /\ jumpVelocity' = s.jumpVelocity
    /\ isJumping' = s.isJumping
    /\ canJump' = s.canJump
    /\ moveForward' = s.moveForward
    /\ moveBackward' = s.moveBackward
    /\ moveLeft' = s.moveLeft
    /\ moveRight' = s.moveRight
    /\ isZooming' = s.isZooming
    /\ originalCameraPosition' = s.originalCameraPosition
    /\ originalCameraRotation' = s.originalCameraRotation
    /\ isLocked' = s.isLocked
    /\ lockRequest' = s.lockRequest
    /\ artworks' = s.artworks
    /\ sincePrevTime' = s.sincePrevTime
    /\ infoPanel' = s.infoPanel

\* the history of a handler that takes the program from s to t
Recorded(s, t, op) ==
    /\ lastOp' = op
    /\ focusEntry' = IF ~s.isZooming /\ t.isZooming
                     THEN [position |-> s.position, rotation |-> s.rotation]
                     ELSE IF s.isZooming THEN focusEntry
                     ELSE NULL

\* frame intervals, in tenths of a second
DeltaSet == {1, 5}

\* yaws the mouse turns the camera to
YawSet == {0, 180}

MoveKeys == {"KeyW", "KeyA", "KeyS", "KeyD"}

\* the keys pressed in a behaviour of the model
PressedKeys == {"KeyW", "Space", "KeyV", "Escape", "KeyR"}

flagOf(s, code) ==
    CASE code = "KeyW" -> s.moveForward
      [] code = "KeyA" -> s.moveLeft
      [] code = "KeyS" -> s.moveBackward
      [] code = "KeyD" -> s.moveRight

\* what a keydown does in state s
keyDownOp(s, code) ==
    IF code = "KeyR" THEN "emergencyReset"
    ELSE IF s.isZooming
         THEN (IF code \in {"KeyV", "Escape"} THEN "resetZoom" ELSE "ignored")
    ELSE IF code = "KeyV"
         THEN (IF findNearestArtwork(s) # NULL THEN "zoomToArtwork" ELSE "ignored")
    ELSE IF code = "Escape" THEN "noFocus"
    ELSE "input"

Constructed ==
    /\ position = InitialState.position
    /\ rotation = InitialState.rotation
    /\ velocity = InitialState.velocity
    /\ jumpVelocity = InitialState.jumpVelocity
    /\ isJumping = InitialState.isJumping
    /\ canJump = InitialState.canJump
    /\ moveForward = InitialState.moveForward
    /\ moveBackward = InitialState.moveBackward
    /\ moveLeft = InitialState.moveLeft
    /\ moveRight = InitialState.moveRight
    /\ isZooming = InitialState.isZooming
    /\ originalCameraPosition = InitialState.originalCameraPosition
    /\ originalCameraRotation = InitialState.originalCameraRotation
    /\ isLocked = InitialState.isLocked
    /\ lockRequest = InitialState.lockRequest
    /\ artworks = InitialState.artworks
    /\ sincePrevTime = InitialState.sincePrevTime
    /\ infoPanel = InitialState.infoPanel
    /\ ticks = 0
    /\ lastOp = "init"
    /\ focusEntry = NULL

Init ==
    /\ Constructed
    /\ probe = NULL

\* a handler takes the program to state t
Handler(t, op) ==
    /\ Becomes(t)
    /\ Recorded(Cur, t, op)
    /\ UNCHANGED probe

\* requestAnimationFrame calls animate
Tick ==
    /\ ticks < MaxTicks
    /\ \E frame \in DeltaSet :
          Handler(animate(Cur, frame), IF outOfBounds(Cur) THEN "watchdog" ELSE "tick")
    /\ ticks' = ticks + 1

\* a key goes down (a held movement key repeats without effect)
KeyDown ==
    /\ \E code \in PressedKeys :
          /\ code \in MoveKeys => ~flagOf(Cur, code)
          /\ Handler(keyDown(Cur, code), keyDownOp(Cur, code))
    /\ UNCHANGED ticks

\* a movement key goes up
KeyUp ==
    /\ \E code \in PressedKeys \cap MoveKeys :
          /\ flagOf(Cur, code)
          /\ Handler(onKeyUp(Cur, code), "input")
    /\ UNCHANGED ticks

\* a click anywhere on the page: the listener of init calls controls.lock()
Click ==
    /\ ~isLocked
    /\ lockRequest # "lock"
    /\ Handler(controlsLock(Cur), "input")
    /\ UNCHANGED ticks

\* the browser answers the pending request with a pointerlockchange event
PointerLockChange ==
    /\ lockRequest # "none"
    /\ Handler([Cur EXCEPT !.isLocked = (lockRequest = "lock"), !.lockRequest = "none"],
               "input")
    /\ UNCHANGED ticks

\* the mouse turns the camera; PointerLockControls listens only while locked
Look ==
    /\ isLocked
    /\ \E yaw \in YawSet \ {rotation.yaw} :
          Handler([Cur EXCEPT !.rotation = [yaw |-> yaw, pitch |-> 0]], "input")
    /\ UNCHANGED ticks

\* the texture of an image finishes loading
Load ==
    /\ \E index \in LoadedImages, size \in ImageSizes :
          /\ \A i \in 1..Len(artworks) : artworks[i].index # index
          /\ Handler([Cur EXCEPT !.artworks = Append(@, loadedArtwork(index, size))],
                     "input")
    /\ UNCHANGED ticks

Next ==
    \/ Tick
    \/ KeyDown
    \/ KeyUp
    \/ Click
    \/ PointerLockChange
    \/ Look
    \/ Load

Spec == Init /\ [][Next]_vars

(***************************************************************************)
(* The collision engine on its own: checkFurnitureCollision is called on   *)
(* candidate positions around the benches, the balloon groups and the gift *)
(* boxes, at walking, bench-top and jumping heights.                       *)
(***************************************************************************)
ProbeX == {-240, -229, -195, -60, 0, 60, 190, 195, 230}

ProbeZ == {640, 646, 690, 750, 810, 854, 860, 945, 1000, 1070}

ProbeY == {100, 200, 201, 290, 300, 309, 310, 450}

\* the call is made with argument p and has not returned yet
called(p) == [newPosition |-> p, returned |-> FALSE, result |-> FALSE]

probed(p) == [newPosition |-> p, returned |-> TRUE, result |-> checkFurnitureCollision(p)]

CollisionInit ==
    /\ Constructed
    /\ \E x \in ProbeX, y \in ProbeY, z \in ProbeZ : probe = called(Vec(x, y, z))

Probe ==
    /\ ~probe.returned
    /\ probe' = probed(probe.newPosition)
    /\ lastOp' = "probe"
    /\ UNCHANGED << programVars, ticks, focusEntry >>

SpecCollision == CollisionInit /\ [][Probe]_vars

(***************************************************************************)
(* Properties                                                              *)
(***************************************************************************)
centre == Vec(0, floorHeight, 0)

\* the wall-inset box the movement controller tests candidates against
InsideInset(p) == insideWallsX(p.x) /\ insideWallsZ(p.z)

\* this step is an animation frame whose movement controller runs
MovementTick == ticks' # ticks /\ movementRuns(watched(Cur))

\* the camera position before the horizontal move of this frame, at the
\* height the frame ends with
PreMoveAtPostHeight == [watched(Cur).position EXCEPT !.y = position'.y]

\* C1: in every movement tick (pointer locked, not zooming), if the position
\* before the horizontal move is not blocked by checkFurnitureCollision at
\* the tick's post-move height, then the position the tick actually reaches
\* through controls.moveRight / controls.moveForward is not blocked either.
C1_MoveNeverEntersFurniture ==
    [][ (MovementTick /\ ~checkFurnitureCollision(PreMoveAtPostHeight))
            => ~checkFurnitureCollision(position') ]_vars

\* C2: every movement tick that starts with the camera inside the wall-inset
\* box (-ROOM_WIDTH/2+1 <= x <= ROOM_WIDTH/2-1, -ROOM_LENGTH/2+1 <= z <=
\* ROOM_LENGTH/2-1) ends with the camera inside that box, whatever keys are
\* held, coasting ticks included.
C2_MoveStaysInsideInset ==
    [][ (MovementTick /\ InsideInset(position)) => InsideInset(position') ]_vars

\* the pose from which the focus session just closed was entered lies in the
\* interior bounds (inset 1 from each wall) and is not blocked by furniture
ExitedFromFreePose ==
    /\ lastOp = "resetZoom"
    /\ focusEntry # NULL
    /\ InsideInset(focusEntry.position)
    /\ ~checkFurnitureCollision(focusEntry.position)

\* C3: focus round trip.  When focus was entered (V key-down, zoomToArtwork)
\* from a pose P inside the interior bounds and not blocked by furniture, and
\* is then left (V or Escape key-down, resetZoom), the camera is at exactly
\* P again: same position and same orientation.
C3_FocusRoundTrip ==
    ExitedFromFreePose
        => position = focusEntry.position /\ rotation = focusEntry.rotation

C3_Witness ==
    /\ ExitedFromFreePose
    /\ position = focusEntry.position
    /\ position # centre
    /\ rotation = focusEntry.rotation

\* C4: after every focus exit (resetZoom) the camera position is not blocked
\* by checkFurnitureCollision against the scene's furniture: a saved pose
\* that collides is replaced by a fallback point that does not.
C4_ExitNeverCollides ==
    /\ lastOp = "resetZoom" => ~checkFurnitureCollision(position)
    /\ isZooming => ~checkFurnitureCollision(resetZoom(Cur).position)

C4_Witness ==
    /\ lastOp = "resetZoom"
    /\ focusEntry # NULL
    /\ checkFurnitureCollision(focusEntry.position)
    /\ position # focusEntry.position
    /\ ~checkFurnitureCollision(position)

\* this step is an animation frame that starts with the camera not zooming
\* and out of bounds
WatchdogTick == ticks' # ticks /\ ~isZooming /\ outOfBounds(Cur)

\* C5: bounds watchdog.  A tick that starts not zooming and out of bounds
\* (y < 0, |x| > ROOM_WIDTH/2+5 or |z| > ROOM_LENGTH/2+5) sets the position to
\* the room centre (0,2,0) before the movement controller runs, and ends at
\* x = 0, z = 0, at height 2 or above and within bounds; no handler other
\* than a tick moves an in-bounds camera out of bounds.  So no two
\* consecutive ticks both start not zooming and out of bounds.
C5_WatchdogRecentres ==
    [][ /\ WatchdogTick =>
            /\ watched(Cur).position = centre
            /\ position'.x = 0 /\ position'.z = 0 /\ position'.y >= floorHeight
            /\ ~outOfBounds(Cur')
        /\ (ticks' = ticks /\ ~outOfBounds(Cur)) => ~outOfBounds(Cur') ]_vars

C5_Witness ==
    /\ lastOp = "watchdog"
    /\ ~isZooming
    /\ position.x = 0 /\ position.z = 0
    /\ ticks >= 2

\* C6: focus entry is idempotent.  zoomToArtwork called while already
\* zooming changes nothing: the saved pose stays the pre-focus pose, and the
\* camera pose, the focus flag and everything else are unchanged.
C6_FocusEntryIdempotent ==
    isZooming =>
        \A i \in 1..Len(artworks) : zoomToArtwork(Cur, artworks[i]) = Cur

C6_Witness ==
    /\ isZooming
    /\ Len(artworks) > 0
    /\ originalCameraPosition # NULL
    /\ originalCameraPosition # position

\* C7: the saved pose exists exactly while zooming.  In every state between
\* handlers originalCameraPosition and originalCameraRotation are non-null
\* if and only if isZooming is true; and an Escape key-down received while
\* not zooming changes no state.
C7_SavedPoseIffZooming ==
    /\ (originalCameraPosition # NULL) <=> isZooming
    /\ (originalCameraRotation # NULL) <=> isZooming
    /\ ~isZooming => keyDown(Cur, "Escape") = Cur

C7_Witness ==
    /\ lastOp = "noFocus"
    /\ ~isZooming
    /\ originalCameraPosition = NULL
    /\ originalCameraRotation = NULL
    /\ isLocked
    /\ position # centre

\* C8: while zooming the movement controller does not run.  Every tick taken
\* with isZooming true leaves the camera position, the horizontal velocity,
\* the vertical velocity and the jumping / can-jump state unchanged.
C8_NoMovementWhileZooming ==
    isZooming =>
        \A frame \in DeltaSet :
            LET t == animate(Cur, frame)
            IN /\ t.position = position
               /\ t.velocity = velocity
               /\ t.jumpVelocity = jumpVelocity
               /\ t.isJumping = isJumping
               /\ t.canJump = canJump

C8_Witness ==
    /\ lastOp = "tick"
    /\ isZooming
    /\ isLocked
    /\ velocity.z # 0

\* C9: while zooming the bounds watchdog never fires.  In no reachable state
\* with isZooming true is the per-tick bounds condition true, and the target
\* pose of every artwork of the gallery, in either orientation, is within
\* the watchdog's bounds.
C9_WatchdogIdleWhileZooming ==
    /\ isZooming => ~outOfBounds(Cur)
    /\ \A index \in 1..NumImages, size \in ImageSizes :
           ~outOfBounds([Cur EXCEPT !.isZooming = TRUE,
                                    !.position = zoomTarget(loadedArtwork(index, size))])

C9_Witness ==
    /\ lastOp = "tick"
    /\ isZooming
    /\ position = zoomTarget(artworks[1])

\* a non-bench item of the scene that the probed position overlaps
\* horizontally (|dx| < halfWidth + 0.3 and |dz| < halfDepth + 0.3)
OverlapsNonBench(p) ==
    \E i \in 1..Len(furniture) :
        furniture[i].type # "bench" /\ overlapsItem(p, furniture[i])

\* C10: a candidate position that horizontally overlaps a non-bench item is
\* blocked: checkFurnitureCollision returns true for it at every height,
\* whatever other items (benches at the same location included) the
\* furniture list holds.
C10_NonBenchAlwaysBlocks ==
    (probe # NULL /\ probe.returned /\ OverlapsNonBench(probe.newPosition))
        => probe.result

(***************************************************************************)
(* checkFurnitureCollision over a furniture list that holds a single bench *)
(* at the origin, with the footprint createBench gives it, unrotated or    *)
(* rotated by a quarter turn (in degrees).                                  *)
(***************************************************************************)
BenchRotations == {0, 90}

BenchProbeX == {-240, -230, -229, -195, -190, -189, -105, -104, -60, 0, 64, 65, 104, 105, 190, 195, 229, 230}

BenchProbeZ == {-110, -105, -104, -70, -65, -60, 0, 60, 64, 70, 104, 105, 195, 229, 230}

BenchProbeY == {100, 200, 201, 290, 291, 300, 309, 310, 450}

calledOn(list, p) ==
    [furniture |-> list, newPosition |-> p, returned |-> FALSE, result |-> FALSE]

probedOn(list, p) ==
    [furniture |-> list, newPosition |-> p, returned |-> TRUE,
     result |-> scanFurniture(list, p, 1)]

BenchInit ==
    /\ Constructed
    /\ \E r \in BenchRotations, x \in BenchProbeX, y \in BenchProbeY, z \in BenchProbeZ :
           probe = calledOn(<< createBench(0, 0, r) >>, Vec(x, y, z))

ProbeBench ==
    /\ ~probe.returned
    /\ probe' = probedOn(probe.furniture, probe.newPosition)
    /\ lastOp' = "probe"
    /\ UNCHANGED << programVars, ticks, focusEntry >>

SpecBenchList == BenchInit /\ [][ProbeBench]_vars

\* the probed position is inside the top surface of the bench, shrunk by 0.1
OnShrunkTop(p, item) ==
    /\ Abs(p.x - item.position.x) < xBoundOf(item) - 10
    /\ Abs(p.z - item.position.z) < zBoundOf(item) - 10

\* C11: for a bench, when the camera height is within 0.1 of the bench-top
\* height 3.0 and the position overlaps the bench within the 0.3 margin,
\* checkFurnitureCollision returns false if the position is inside the top
\* surface shrunk by 0.1 and true otherwise; for the 4 x 1.5 bench at the
\* origin, (1.95, 0.7) at height 3.0 is blocked.
C11_BenchTopEdgesBlock ==
    (/\ probe.returned
     /\ Abs(probe.newPosition.y - benchTopHeight) < 10
     /\ overlapsItem(probe.newPosition, probe.furniture[1]))
        => (probe.result <=> ~OnShrunkTop(probe.newPosition, probe.furniture[1]))

\* the horizontal overlap of C16: |dx| < xBound + 0.3 and |dz| < zBound + 0.3
\* with the half width / depth swapped when the bench rotation is non-zero
BenchOverlap(p, bench) ==
    LET swapped == bench.rotation # 0
        xBound == IF swapped THEN bench.dimensions.z \div 2 ELSE bench.dimensions.x \div 2
        zBound == IF swapped THEN bench.dimensions.x \div 2 ELSE bench.dimensions.z \div 2
    IN /\ Abs(p.x - bench.position.x) < xBound + margin
       /\ Abs(p.z - bench.position.z) < zBound + margin

StartsAs(s) ==
    /\ position = s.position
    /\ rotation = s.rotation
    /\ velocity = s.velocity
    /\ jumpVelocity = s.jumpVelocity
    /\ isJumping = s.isJumping
    /\ canJump = s.canJump
    /\ moveForward = s.moveForward
    /\ moveBackward = s.moveBackward
    /\ moveLeft = s.moveLeft
    /\ moveRight = s.moveRight
    /\ isZooming = s.isZooming
    /\ originalCameraPosition = s.originalCameraPosition
    /\ originalCameraRotation = s.originalCameraRotation
    /\ isLocked = s.isLocked
    /\ lockRequest = s.lockRequest
    /\ artworks = s.artworks
    /\ sincePrevTime = s.sincePrevTime
    /\ infoPanel = s.infoPanel
    /\ ticks = 0
    /\ lastOp = "init"
    /\ focusEntry = NULL

\* the images of the wall at z = -ROOM_LENGTH/2
SelectImages == {7, 8, 9, 10}

SelectPositions ==
    { Vec(0, floorHeight, -800), Vec(100, floorHeight, -800),
      Vec(-300, floorHeight, -900), Vec(-1000, 270, -600), Vec(0, floorHeight, 0) }

\* the sequences without repetition of at most n elements of S
RECURSIVE Orders(_, _)
Orders(S, n) ==
    IF n = 0 THEN { << >> }
    ELSE LET shorter == Orders(S, n - 1)
         IN shorter \cup
            { Append(q[1], q[2]) :
                  q \in { r \in shorter \X S : \A i \in 1..Len(r[1]) : r[1][i] # r[2] } }

MaxRegistry == 3

\* the registry after the loads of the images of order completed in that
\* order; image 8 is taken to be a portrait, the others landscapes
registryOf(order) ==
    [i \in 1..Len(order) |->
        loadedArtwork(order[i], IF order[i] = 8 THEN <<3, 4>> ELSE <<4, 3>>)]

SelectionInit ==
    \E p \in SelectPositions, yaw \in YawSet, order \in Orders(SelectImages, MaxRegistry) :
        /\ StartsAs([InitialState EXCEPT !.position = p, !.rotation.yaw = yaw,
                                         !.isLocked = TRUE,
                                         !.artworks = registryOf(order)])
        /\ probe = [returned |-> FALSE, result |-> NULL]

Select ==
    /\ ~probe.returned
    /\ probe' = [returned |-> TRUE, result |-> findNearestArtwork(Cur)]
    /\ lastOp' = "probe"
    /\ UNCHANGED << programVars, ticks, focusEntry >>

SpecSelection == SelectionInit /\ [][Select]_vars

\* the registry entries that pass the distance and the angle test
Qualifying == { i \in 1..Len(artworks) : qualifies(position, rotation, artworks[i]) }

DistinctScores ==
    \A i, j \in Qualifying :
        i # j => scoreOf(position, rotation, artworks[i])
                     # scoreOf(position, rotation, artworks[j])

\* the first registry entry among the qualifying ones of highest score
FirstBest ==
    CHOOSE i \in Qualifying :
        \A j \in Qualifying :
            \/ scoreOf(position, rotation, artworks[j]) < scoreOf(position, rotation, artworks[i])
            \/ /\ scoreOf(position, rotation, artworks[j]) = scoreOf(position, rotation, artworks[i])
               /\ i <= j

\* the registry in every order
Reorderings ==
    { [i \in 1..Len(artworks) |-> artworks[f[i]]] :
        f \in { g \in [1..Len(artworks) -> 1..Len(artworks)] :
                  \A i, j \in 1..Len(artworks) : i # j => g[i] # g[j] } }

\* C12: artwork selection is order-independent for distinct scores.  When
\* the qualifying artworks (distance < max(10, 3*max(w,h)), angle <
\* 45deg*(1 + min(w,h)/5)) have pairwise different scores, findNearestArtwork
\* returns the qualifying artwork of highest score under every order of the
\* registry; on a tie of the highest score it returns the first one met; it
\* returns null when no artwork qualifies.
C12_SelectionOrderIndependent ==
    probe.returned =>
        /\ Qualifying = {} => probe.result = NULL
        /\ Qualifying # {} => probe.result = artworks[FirstBest]
        /\ DistinctScores =>
               \A list \in Reorderings :
                   scanArtworks(list, position, rotation, 1, NULL) = probe.result

C12_Witness ==
    /\ probe.returned
    /\ Cardinality(Qualifying) >= 2
    /\ DistinctScores
    /\ probe.result # NULL
    /\ probe.result # artworks[1]
    /\ qualifies(position, rotation, artworks[1])

\* what emergency recovery leaves: not zooming, no saved pose, the camera at
\* the room centre, no horizontal velocity, no movement key taken as held,
\* and the pointer locked or its lock requested
Recovered(t) ==
    /\ ~t.isZooming
    /\ t.originalCameraPosition = NULL
    /\ t.originalCameraRotation = NULL
    /\ t.position = centre
    /\ t.velocity = [x |-> 0, z |-> 0]
    /\ ~t.moveForward /\ ~t.moveBackward /\ ~t.moveLeft /\ ~t.moveRight
    /\ \/ t.lockRequest = "lock"
       \/ t.isLocked /\ t.lockRequest # "unlock"

\* C13: emergency recovery, from the watchdog or from the R key, in any
\* state (zooming or not, jumping or not, pointer locked or not), returns
\* with the camera not zooming, the saved pose cleared, the position exactly
\* (0,2,0), the horizontal velocity zero, the four movement flags false and
\* the pointer lock engaged or requested.
C13_EmergencyRecovery ==
    /\ Recovered(emergencyReset(Cur))
    /\ Recovered(keyDown(Cur, "KeyR"))
    /\ outOfBounds(Cur) => Recovered(watched(Cur))
    /\ lastOp = "emergencyReset" => Recovered(Cur)

C13_Witness ==
    /\ lastOp = "emergencyReset"
    /\ focusEntry # NULL
    /\ focusEntry.position # centre
    /\ isJumping
    /\ Recovered(Cur)

(***************************************************************************)
(* The player in front of the bench at (0, -ROOM_LENGTH/4): pointer locked,*)
(* facing the bench, two units short of its centre line, with the W and    *)
(* Space keys.                                                             *)
(***************************************************************************)
MaxBenchTicks == 7

NearBenchKeys == {"KeyW", "Space"}

NearBench ==
    /\ StartsAs([InitialState EXCEPT
                    !.position = Vec(0, floorHeight, -(ROOM_LENGTH \div 4) + 200),
                    !.isLocked = TRUE])
    /\ probe = NULL

NearBenchTick ==
    /\ ticks < MaxBenchTicks
    /\ \E frame \in DeltaSet :
          Handler(animate(Cur, frame), IF outOfBounds(Cur) THEN "watchdog" ELSE "tick")
    /\ ticks' = ticks + 1

NearBenchKeyDown ==
    /\ \E code \in NearBenchKeys :
          /\ code \in MoveKeys => ~flagOf(Cur, code)
          /\ Handler(keyDown(Cur, code), keyDownOp(Cur, code))
    /\ UNCHANGED ticks

NearBenchNext ==
    \/ NearBenchTick
    \/ NearBenchKeyDown
    \/ KeyUp

SpecNearBench == NearBench /\ [][NearBenchNext]_vars

\* C14: a jump is triggered only on the ground.  In every reachable state
\* canJump is true only when isJumping is false, and a Space key-down while
\* the player is airborne leaves the vertical velocity and the jump state
\* unchanged, so jumpVelocity is never set to JUMP_FORCE in mid-air.
C14_NoJumpInMidAir ==
    /\ canJump => ~isJumping
    /\ isJumping =>
           LET t == keyDown(Cur, "Space")
           IN /\ t.jumpVelocity = jumpVelocity
              /\ t.isJumping = isJumping
              /\ t.canJump = canJump

\* this step is a frame of the movement controller, not preceded by a reset
\* of the watchdog, that leaves the horizontal position as it was
VerticalOnlyTick ==
    /\ MovementTick
    /\ ~outOfBounds(Cur)
    /\ position'.x = position.x
    /\ position'.z = position.z

\* C15: vertical motion commits no collision.  A movement tick that starts
\* at a position checkFurnitureCollision does not block, and in which
\* gravity changes the height or the player lands on the floor, ends at a
\* position that is not blocked at its resulting height; in particular a
\* player coming down over the edge zone of a bench does not come to rest at
\* floor height inside the bench's blocking footprint.  (Stated for the ticks
\* that leave the horizontal position alone.)
C15_VerticalMotionNeverBlocks ==
    [][ (/\ VerticalOnlyTick
         /\ ~checkFurnitureCollision(position)
         /\ position'.y # position.y)
            => ~checkFurnitureCollision(position') ]_vars

\* C17: landing.  A player who is airborne above the bench-top height 3
\* inside the landing footprint of a bench (bounds shrunk by 0.2) and whose
\* airborne phase ends in this tick (so the player came down through height
\* 3 in it), whatever the frame's delta-time, ends it on the bench top, at
\* height exactly 3, never on the floor under it.
C17_FallOntoBenchLandsOnTop ==
    [][ (/\ MovementTick
         /\ ~outOfBounds(Cur)
         /\ isJumping
         /\ position.y > benchTopHeight
         /\ overBench(position)
         /\ ~isJumping')
            => position'.y = benchTopHeight ]_vars

\* C18: falling off a bench.  In a movement tick that starts with the player
\* not jumping at a height above 2: if the position is outside the standing
\* footprint (bounds shrunk by 0.2) of every bench, the tick sets isJumping
\* with jumpVelocity 0; if it is inside one, the jump state is unchanged.
C18_WalkOffBenchFalls ==
    (/\ movementRuns(Cur)
     /\ ~outOfBounds(Cur)
     /\ ~isJumping
     /\ position.y > floorHeight)
        => \A frame \in DeltaSet :
               LET t == animate(Cur, frame)
               IN IF overBench(position)
                  THEN /\ t.isJumping = isJumping
                       /\ t.jumpVelocity = jumpVelocity
                       /\ t.canJump = canJump
                       /\ t.position.y = position.y
                  ELSE t.isJumping /\ t.jumpVelocity = 0

C18_Witness ==
    /\ lastOp = "tick"
    /\ isJumping
    /\ jumpVelocity = 0
    /\ canJump
    /\ position.y = benchTopHeight
    /\ ~overBench(position)

(***************************************************************************)
(* Focus entered and left from any pose: the camera stands at one of a     *)
(* grid of poses (free, inside furniture, between the wall inset and a     *)
(* wall), every image has loaded, and only the V and Escape keys are used. *)
(***************************************************************************)
PoseX == {-2450, -2300, -1667, -1250, -300, 0, 150, 1250, 1667, 2300, 2450}

PoseZ == {-1450, -1300, -1000, -750, -700, 0, 700, 750, 950, 1000, 1300, 1450}

PoseY == {200, 270}

PoseYaw == {0, 90, 180, 270}

\* the registry once every image has loaded, in the order of imagePaths
fullRegistry == [i \in 1..NumImages |-> loadedArtwork(i, <<4, 3>>)]

AnyPose ==
    /\ \E x \in PoseX, y \in PoseY, z \in PoseZ, yaw \in PoseYaw :
           StartsAs([InitialState EXCEPT
                        !.position = Vec(x, y, z),
                        !.rotation.yaw = yaw,
                        !.isJumping = (y > floorHeight),
                        !.canJump = ~(y > floorHeight),
                        !.isLocked = TRUE,
                        !.artworks = fullRegistry])
    /\ probe = NULL

FocusKeys == {"KeyV", "Escape"}

FocusKeyDown ==
    /\ \E code \in FocusKeys :
          Handler(keyDown(Cur, code), keyDownOp(Cur, code))
    /\ UNCHANGED ticks

SpecFocus == AnyPose /\ [][FocusKeyDown]_vars

\* a saved position clamped into the interior bounds (inset 1 from each wall)
\* with its height floored at 2
ClampedPose(p) ==
    Vec(Max(-(ROOM_WIDTH \div 2) + 100, Min((ROOM_WIDTH \div 2) - 100, p.x)),
        Max(200, p.y),
        Max(-(ROOM_LENGTH \div 2) + 100, Min((ROOM_LENGTH \div 2) - 100, p.z)))

\* the five fallback points: the room centre and the four quarter offsets
FallbackPoints ==
    { Vec(0, 200, 0),
      Vec(-(ROOM_WIDTH \div 4), 200, 0), Vec(ROOM_WIDTH \div 4, 200, 0),
      Vec(0, 200, -(ROOM_LENGTH \div 4)), Vec(0, 200, ROOM_LENGTH \div 4) }

\* a focus session was just left
FocusExited == lastOp = "resetZoom" /\ focusEntry # NULL

\* C19: when the clamped restored pose collides on focus exit, the position
\* substituted is one of the five fallback points (0,2,0),
\* (+-ROOM_WIDTH/4,2,0), (0,2,+-ROOM_LENGTH/4), is itself collision-free, and
\* no other collision-free fallback point is strictly nearer to the clamped
\* pose.
C19_FallbackIsNearestFree ==
    (FocusExited /\ checkFurnitureCollision(ClampedPose(focusEntry.position)))
        => /\ position \in FallbackPoints
           /\ ~checkFurnitureCollision(position)
           /\ \A q \in FallbackPoints :
                  ~checkFurnitureCollision(q)
                      => distanceSq(ClampedPose(focusEntry.position), q)
                             >= distanceSq(ClampedPose(focusEntry.position), position)

C19_Witness ==
    /\ FocusExited
    /\ checkFurnitureCollision(ClampedPose(focusEntry.position))
    /\ position \in FallbackPoints
    /\ position # centre

\* C20: after every focus exit the camera position lies inside the
\* wall-inset box (|x| <= ROOM_WIDTH/2-1, |z| <= ROOM_LENGTH/2-1) at height 2
\* or above, and the camera orientation is the orientation saved at entry,
\* also when the position was clamped or replaced by a fallback point.
C20_ExitInsideRoomSameOrientation ==
    FocusExited
        => /\ Abs(position.x) <= (ROOM_WIDTH \div 2) - 100
           /\ Abs(position.z) <= (ROOM_LENGTH \div 2) - 100
           /\ position.y >= 200
           /\ rotation = focusEntry.rotation

C20_Witness ==
    /\ FocusExited
    /\ ~InsideInset(focusEntry.position)
    /\ InsideInset(position)
    /\ rotation = focusEntry.rotation
    /\ rotation.yaw # 0


\* C21: a V key-down in the Free state when no loaded artwork passes the
\* distance and angle tests of findNearestArtwork leaves the whole state as it
\* was: the focus flag, the saved pose, the camera pose, the pointer-lock
\* request and the info panel; Free becomes Focused only when some loaded
\* artwork qualifies.
C21_NoTargetNoFocus ==
    ~isZooming
        => /\ Qualifying = {} => keyDown(Cur, "KeyV") = Cur
           /\ keyDown(Cur, "KeyV").isZooming => Qualifying # {}

C21_Witness ==
    /\ lastOp = "ignored"
    /\ ~isZooming
    /\ Len(artworks) > 0
    /\ Qualifying = {}
    /\ keyDown(Cur, "KeyV") = Cur

(***************************************************************************)
(* SpecLoad: texture loads completing in any order between frames, focus   *)
(* keys, clicks and pointer-lock changes, in front of the north wall       *)
(***************************************************************************)
\* the images whose loads complete, in any order: 8 and 9 hang within reach
\* of the start position, 10 does not
LoadingImages == {8, 9, 10}

BeforeLoads ==
    /\ StartsAs([InitialState EXCEPT !.position = Vec(0, floorHeight, -800),
                                     !.isLocked = TRUE])
    /\ probe = NULL

\* the load callback of one image runs, once per image
LoadImage ==
    /\ \E index \in LoadingImages, size \in ImageSizes :
          /\ \A i \in 1..Len(artworks) : artworks[i].index # index
          /\ Handler([Cur EXCEPT !.artworks = Append(@, loadedArtwork(index, size))],
                     "load")
    /\ UNCHANGED ticks

LoadNext ==
    \/ LoadImage
    \/ FocusKeyDown
    \/ Tick
    \/ Click
    \/ PointerLockChange

SpecLoad == BeforeLoads /\ [][LoadNext]_vars

\* every registry entry is complete and carries the metadata of its own image
EntriesComplete(registry) ==
    \A i \in 1..Len(registry) :
        /\ registry[i].index \in 1..NumImages
        /\ registry[i].width > 0
        /\ registry[i].height > 0
        /\ registry[i].title = artworkInfo[registry[i].index].title
        /\ registry[i].description = artworkInfo[registry[i].index].description
        /\ registry[i].position = artworkPositions[registry[i].index].position
        /\ \A j \in 1..Len(registry) : registry[j].index = registry[i].index => j = i

\* C22: under every interleaving of the load completions with ticks and key
\* events the registry only grows (a step keeps the entries it had, in
\* place), each image has at most one entry, every entry has a width, a
\* height and the title and description of its own image index whatever the
\* completion order, a focus entry targets an artwork that was in the
\* registry before the key-down, and a load completing during a focus session
\* changes neither the camera pose nor the saved pose.
C22_LoadsAppendCompleteEntries ==
    [][ /\ Len(artworks') >= Len(artworks)
        /\ SubSeq(artworks', 1, Len(artworks)) = artworks
        /\ EntriesComplete(artworks')
        /\ (~isZooming /\ isZooming')
               => \E i \in 1..Len(artworks) :
                      /\ position' = zoomTarget(artworks[i])
                      /\ infoPanel' = [title |-> artworks[i].title,
                                       description |-> artworks[i].description]
        /\ (isZooming /\ artworks' # artworks)
               => /\ position' = position
                  /\ rotation' = rotation
                  /\ originalCameraPosition' = originalCameraPosition
                  /\ originalCameraRotation' = originalCameraRotation
                  /\ isZooming' ]_vars

\* a load completed during a focus session on an artwork loaded after
\* another one, with the third image still loading
C22_Witness ==
    /\ lastOp = "load"
    /\ isZooming
    /\ Len(artworks) = 3
    /\ artworks[1].index = 10
    /\ artworks[3].index = 8
    /\ infoPanel.title = artworkInfo[9].title
    /\ position = zoomTarget(artworks[2])

\* C23: the damping step v -= v * 10 * dt moves each horizontal velocity
\* component toward zero for every dt a movement tick can receive: the
\* magnitude of the component does not increase and its sign does not flip.
C23_DampingTowardZero ==
    movementRuns(watched(Cur))
        => \A frame \in DeltaSet :
              LET before == watched(Cur).velocity
                  after == damped(watched(Cur), sincePrevTime + frame).velocity
              IN /\ Abs(after.x) <= Abs(before.x)
                 /\ Abs(after.z) <= Abs(before.z)
                 /\ after.x * before.x >= 0
                 /\ after.z * before.z >= 0

(***************************************************************************)
(* SpecSlide: frames and the W and D keys with the player in front of the  *)
(* north wall, pointer locked                                              *)
(***************************************************************************)
SlideKeys == {"KeyW", "KeyD"}

AtNorthWall ==
    /\ StartsAs([InitialState EXCEPT
                    !.position = Vec(0, floorHeight, -(ROOM_LENGTH \div 2) + 150),
                    !.isLocked = TRUE])
    /\ probe = NULL

SlideKeyDown ==
    /\ \E code \in SlideKeys :
          /\ ~flagOf(Cur, code)
          /\ Handler(keyDown(Cur, code), keyDownOp(Cur, code))
    /\ UNCHANGED ticks

SlideKeyUp ==
    /\ \E code \in SlideKeys :
          /\ flagOf(Cur, code)
          /\ Handler(onKeyUp(Cur, code), "input")
    /\ UNCHANGED ticks

\* animate, recorded as "obstructed" when the movement controller runs and
\* finds the candidate position of the frame in a wall or in furniture
SlideTick ==
    /\ ticks < MaxTicks
    /\ \E frame \in DeltaSet :
          LET delta == sincePrevTime + frame
              s == jumpPhase(damped(watched(Cur), delta), delta)
          IN Handler(animate(Cur, frame),
                     IF outOfBounds(Cur) THEN "watchdog"
                     ELSE IF movementRuns(Cur) /\ ~candidateFree(s, delta)
                          THEN "obstructed" ELSE "tick")
    /\ ticks' = ticks + 1

SlideNext == SlideTick \/ SlideKeyDown \/ SlideKeyUp

SpecSlide == AtNorthWall /\ [][SlideNext]_vars

\* the state of a movement tick of frame tenths of a second when it reaches
\* the collision tests: after the watchdog, the damping and the jump phase
BeforeMove(frame) ==
    jumpPhase(damped(watched(Cur), sincePrevTime + frame), sincePrevTime + frame)

\* the slide along x is allowed: the candidate that differs from the current
\* position in x only is free of furniture and inside the wall inset in x
SlideXAllowed(s, delta) ==
    /\ ~checkFurnitureCollision(Vec(newPosition(s, delta).x, s.position.y, s.position.z))
    /\ Abs(newPosition(s, delta).x) <= (ROOM_WIDTH \div 2) - 100

SlideZAllowed(s, delta) ==
    /\ ~checkFurnitureCollision(Vec(s.position.x, s.position.y, newPosition(s, delta).z))
    /\ Abs(newPosition(s, delta).z) <= (ROOM_LENGTH \div 2) - 100

\* the full candidate of the tick is obstructed by a wall or by furniture
Obstructed(s, delta) ==
    \/ ~InsideInset(newPosition(s, delta))
    \/ checkFurnitureCollision(newPosition(s, delta))

\* C24: in a movement tick whose full candidate position is obstructed the
\* velocity after the tick is the damped velocity (not zeroed, not
\* accelerated by the input); the velocity differs from the damped one only
\* in ticks whose full candidate was legal; and the position changes along
\* the camera's right (forward) vector only if the x-only (z-only) candidate
\* is free of furniture and inside the wall inset.
C24_ObstructedTickOnlyDamps ==
    movementRuns(watched(Cur))
        => \A frame \in DeltaSet :
              LET delta == sincePrevTime + frame
                  s == BeforeMove(frame)
                  t == animate(Cur, frame)
                  alongX == controlsMoveRight(s, travel(s.velocity.x, delta))
                  alongZ == controlsMoveForward(s, travel(s.velocity.z, delta))
              IN /\ Obstructed(s, delta) => t.velocity = s.velocity
                 /\ t.velocity # s.velocity => ~Obstructed(s, delta)
                 /\ Obstructed(s, delta)
                       => /\ ~SlideXAllowed(s, delta)
                              => t.position \in {s.position, alongZ.position}
                          /\ ~SlideZAllowed(s, delta)
                              => t.position \in {s.position, alongX.position}

\* after an obstructed tick, a state in which the next tick is obstructed
\* too, the x-only candidate is allowed, and the tick slides the player with
\* the velocity it has after damping
C24_Witness ==
    /\ lastOp = "obstructed"
    /\ movementRuns(Cur)
    /\ \E frame \in DeltaSet :
          /\ Obstructed(BeforeMove(frame), sincePrevTime + frame)
          /\ SlideXAllowed(BeforeMove(frame), sincePrevTime + frame)
          /\ BeforeMove(frame).velocity.x # 0
          /\ animate(Cur, frame).position # BeforeMove(frame).position
          /\ animate(Cur, frame).velocity = BeforeMove(frame).velocity


\* C25: the directional flags are level-triggered.  A key-down of W, S, A or
\* D leaves its key held, so in every state reached without an emergency
\* reset in between the flag of the key is true after the key-down, and
\* false after the key-up, also during and after a focus session.
C25_FlagFollowsKey ==
    \A code \in MoveKeys :
        /\ flagOf(keyDown(Cur, code), code)
        /\ ~flagOf(onKeyUp(Cur, code), code)

\* C26: from focus entry until focus exit the pointer lock stays disabled:
\* while Focused no lock request is pending, and once the unlock requested at
\* entry has taken effect the pointer stays unlocked until exit, whatever
\* events (mouse clicks included) arrive.
C26_NoLockWhileFocused ==
    isZooming
        => /\ lockRequest # "lock"
           /\ isLocked => lockRequest = "unlock"

\* C27: the delta-time of a movement tick never includes time in which
\* movement was suspended: every tick that does not process movement
\* refreshes prevTime, so whenever the movement controller is about to run,
\* prevTime is the time of the previous tick and no earlier time is
\* carried over, whatever the pointer-lock state was during a focus session.
C27_DeltaSincePreviousTick ==
    movementRuns(Cur) => sincePrevTime = 0

\* C28: in every reachable state the camera height is at least 2 (the floor
\* eye height): a fall is snapped to 2 or 3 in the tick that crosses it, and
\* focus entry, focus exit and the emergency reset set heights of 2 or more;
\* so the y < 0 condition of the watchdog holds in no reachable state.
C28_HeightAtLeastFloor ==
    /\ position.y >= floorHeight
    /\ ~(~isZooming /\ position.y < 0)

\* the player is in the air after a tick of a jump, and the fall of a frame
\* of half a second computes a height below zero before the landing test
\* snaps it to the floor
C28_Witness ==
    /\ lastOp = "tick"
    /\ movementRuns(Cur)
    /\ isJumping
    /\ position.y > floorHeight
    /\ position.y + RoundDiv((jumpVelocity + (GRAVITY * 5) \div 10) * 5, 10) < 0
    /\ animate(Cur, 5).position.y = floorHeight
    /\ ~animate(Cur, 5).isJumping


(***************************************************************************)
(* SpecLanding: jumps and frames without end, pointer locked, Free, from   *)
(* the floor and from the bench tops.  Frames are counted modulo 2, so     *)
(* that every frame is a step that changes ticks.                          *)
(***************************************************************************)
LandingStarts ==
    { p \in { Vec(x, floorHeight, z) : x \in {-1000, 0, 1000}, z \in {-250, 0, 250, 500} } :
          ~checkFurnitureCollision(p) }
    \cup { Vec(0, benchTopHeight, -(ROOM_LENGTH \div 4)),
           Vec(0, benchTopHeight, ROOM_LENGTH \div 4) }

Standing ==
    /\ \E p \in LandingStarts :
          StartsAs([InitialState EXCEPT !.position = p, !.isLocked = TRUE])
    /\ probe = NULL

\* animate, recorded as "landing" when it takes the player from the air to
\* a surface
LandingTick ==
    /\ ticks' = 1 - ticks
    /\ \E frame \in DeltaSet :
          Handler(animate(Cur, frame),
                  IF outOfBounds(Cur) THEN "watchdog"
                  ELSE IF isJumping /\ ~animate(Cur, frame).isJumping THEN "landing"
                  ELSE "tick")

\* the Space key goes down
LandingJump ==
    /\ Handler(keyDown(Cur, "Space"), keyDownOp(Cur, "Space"))
    /\ UNCHANGED ticks

LandingNext == LandingTick \/ LandingJump

\* a frame is taken: the only step that changes ticks
Frame == ticks' = 1 - ticks

\* requestAnimationFrame(animate) is the first statement of animate, so the
\* browser keeps calling it: frames are weakly fair
SpecLanding == Standing /\ [][LandingNext]_vars /\ WF_ticks(Frame)

\* C29: landing liveness.  Once the player is airborne, with movement ticks
\* of positive delta-time that keep occurring in Free mode with the pointer
\* locked and with no jump trigger accepted in the air, the player is
\* eventually grounded at height 2 or 3.
C29_AirborneEventuallyLands ==
    isJumping ~> (~isJumping /\ canJump /\ position.y \in {floorHeight, benchTopHeight})

\* a jump from a bench top has just come down on the bench top
C29_Witness ==
    /\ lastOp = "landing"
    /\ ~isJumping
    /\ canJump
    /\ position.y = benchTopHeight
    /\ overBench(position)

\* the movement state of t is that of s: position, horizontal and vertical
\* velocity, and the jump flags
SameMovementState(s, t) ==
    /\ t.position = s.position
    /\ t.velocity = s.velocity
    /\ t.jumpVelocity = s.jumpVelocity
    /\ t.isJumping = s.isJumping
    /\ t.canJump = s.canJump

\* a tick in which the watchdog does not fire and the pointer is not locked
\* leaves the movement state as it was
UnlockedTickIdle ==
    (~isLocked /\ ~outOfBounds(Cur))
        => \A frame \in DeltaSet : SameMovementState(Cur, animate(Cur, frame))

\* a Space key-down leaves the jump armed
SpaceArms ==
    /\ keyDown(Cur, "Space").isJumping
    /\ ~keyDown(Cur, "Space").canJump

\* C30 as stated: with the pointer not locked, a tick in which the watchdog
\* does not fire changes neither position, velocities nor the jump state, and
\* a Space key-down received in any such state arms the jump (isJumping
\* true, canJump false).
C30_SpaceArmsWheneverUnlocked ==
    /\ UnlockedTickIdle
    /\ (~isLocked /\ ~outOfBounds(Cur)) => SpaceArms

\* C30, amended: with the pointer not locked, a tick in which the watchdog
\* does not fire changes neither position, velocities nor the jump state, also
\* with intent flags set or the player airborne; a Space key-down received in
\* such a state arms the jump (isJumping true, canJump false) when the
\* program is Free, and is ignored when it is Focused.
C30_MovementRequiresLock ==
    /\ UnlockedTickIdle
    /\ (~isLocked /\ ~outOfBounds(Cur) /\ ~isZooming) => SpaceArms
    /\ (~isLocked /\ isZooming) => keyDown(Cur, "Space") = Cur

\* before the first click: W and Space were pressed and a frame has passed
\* with the jump still armed at floor height
C30_Witness ==
    /\ lastOp = "tick"
    /\ ~isLocked
    /\ ~isZooming
    /\ moveForward
    /\ isJumping
    /\ ~canJump
    /\ jumpVelocity = JUMP_FORCE
    /\ position = centre
    /\ velocity = [x |-> 0, z |-> 0]
=============================================================================
